---- MODULE Spec2Model ----
(***************************************************************************)
(* GraphSnake: the game-state layer of src/snake/graph.py.                 *)
(*                                                                         *)
(* The specifications share the variables of a Snake and its graph:        *)
(*   Spec       a GameGraph after construction, driven by move_snake,      *)
(*              generate_apple and generate_apple_if_missing, and asked    *)
(*              get_segments and get_snakes_next_edges;                    *)
(*   SpecScore  the same game with one or two Score objects attached;      *)
(*   SpecSnake  the constructor Snake(head, body, tail) applied to         *)
(*              arbitrary head, body and tail;                             *)
(*   SpecFromVertices  Snake.from_vertices applied to arbitrary lists of   *)
(*              vertices of a graph;                                       *)
(*   SpecAlgorithm  the loop of src/main.py with an AIController that      *)
(*              asks a ShortestPathAlgorithm for the next edge;            *)
(*   SpecGraph  the constructor Graph(vertices, edges) and get_edge;       *)
(*   SpecEdge   Edge.__eq__ and Edge.__hash__ on two arbitrary edges;      *)
(*   SpecFactory  create_vertex on several VertexFactory objects;          *)
(*   SpecLayout  a GraphLayout of src/snake/layout.py driven by            *)
(*              add_vertex, scale, scale_to and edge_to_unit_vector;       *)
(*   SpecVector  Vector.get_closest on an arbitrary vector and set of      *)
(*              vectors;                                                   *)
(*   SpecWalls  the game of Spec on a board with walls, typed edges and    *)
(*              the indexes of Graph.__init__;                             *)
(*   SpecDriver  the loop of src/main.py with a controller that moves      *)
(*              the snake along any of its next edges.                     *)
(*                                                                         *)
(* A vertex is its id (a positive integer), an edge is the pair            *)
(* <<first, second>> of its endpoints.  Types are the names of the         *)
(* members of VertexType and EdgeType.                                     *)
(***************************************************************************)
EXTENDS Integers, Sequences, FiniteSets, TLC

\* ------------------------------------------------------------------ bounds
\* Number of columns of the two-row board the game is played on.
GridWidth == 2
\* generate_apple is not called any more once this many apples are placed.
MaxApples == 2
\* Vertices the arguments of the Snake constructor are drawn from.
NumSnakeVertices == 3
\* Longest body handed to the Snake constructor.
MaxBody == 3
\* Longest list of vertices handed to Snake.from_vertices.
MaxSnakeVertices == 3
\* move_snake is not called any more on a game with a Score attached once
\* it was called this often.
MaxMoves == 3
\* Vertices the arguments of Graph and of Edge are drawn from.
NumGraphVertices == 2
\* Most edges handed to the Graph constructor.
MaxGraphEdges == 2
\* Number of VertexFactory objects.
NumFactories == 2
\* create_vertex is not called any more once this many vertices exist.
MaxCreated == 3
\* Largest coordinate handed to add_vertex, in halves of a unit.
MaxCoordinate == 2
\* Largest x and y of the vectors handed to get_closest.
MaxVector == 2
\* Most vectors in the set handed to get_closest.
MaxCandidates == 2

\* ------------------------------------------------------------ the program
VertexType == {"NONE", "EMPTY", "WALL", "SNAKE", "APPLE"}
EdgeType == {"NONE", "EMPTY", "SNAKE", "WALL"}

\* The value of Snake._left_edge when no edge was left.
None == <<>>

\* What get_other gives when it raises ValueError (no vertex has id 0).
ValueError == 0

VARIABLES
    vertices,    \* Graph.vertices
    edges,       \* Graph.edges
    vtype,       \* Vertex.type of every vertex
    etype,       \* Edge.type of every edge
    head,        \* Snake.head
    body,        \* Snake.body, a sequence of edges from head to tail
    tail,        \* Snake.tail
    left_edge,   \* Snake._left_edge
    apples,      \* GameGraph.apples
    call,        \* the last call made: its operation and arguments
    result,      \* how the last call ended: "ok" or the exception raised
    fired,       \* invocations of GameGraph.apple_callback in the last call
    pre,         \* the game state at the start of the last call
    dead,        \* die() has been called at least once
    returned,    \* what the last call returned
    next_edges_seen,  \* what get_snakes_next_edges returned first since
                      \* the last call of move_snake, if it was called
                      \* since, and whether it was called again
    scores,      \* the Score objects made for the graph, in order: their
                 \* fields _moves and _score
    apple_callback,   \* GameGraph.apple_callback: the Score whose
                      \* _on_eaten_apple it is, 0 for another observer
    move_callback,    \* GameGraph.move_callback: the Score whose
                      \* _on_before_move it is, 0 when it was never set
    move_calls,  \* calls of move_snake made since a Score was attached
    path,        \* ShortestPathAlgorithm._path
    plan,        \* what the last _find_shortest_path looked for and found,
                 \* and the calls of move_snake made since
    edge_dict,   \* Graph._edge_dict
    incidence_dict,   \* Graph._incidence_dict
    next_id_int,      \* VertexFactory._next_id_int of every factory
    created,     \* the vertices the factories have created, in order
    vertex_coordinates_dict,  \* GraphLayout._vertex_coordinates_dict
    width,       \* GraphLayout.width
    height       \* GraphLayout.height

algorithm_vars == <<path, plan>>

index_vars == <<edge_dict, incidence_dict>>

factory_vars == <<next_id_int, created>>

layout_vars == <<vertex_coordinates_dict, width, height>>

snake_vars == <<vtype, etype, head, body, tail, left_edge, apples, dead,
                next_edges_seen, scores, apple_callback, move_callback,
                move_calls>>

game_vars == <<vertices, edges, vtype, etype, head, body, tail, left_edge,
               apples, dead, next_edges_seen, scores, apple_callback,
               move_callback, move_calls>>

vars == <<game_vars, call, result, fired, pre, returned, algorithm_vars,
          index_vars, factory_vars, layout_vars>>

\* The part of the state the program itself holds.
Game ==
    [vtype |-> vtype, etype |-> etype, head |-> head, body |-> body,
     tail |-> tail, left_edge |-> left_edge, apples |-> apples,
     scores |-> scores]

\* No _find_shortest_path has run.
NoPlan ==
    [searched |-> FALSE, target |-> 0, found |-> <<>>, moved |-> 0,
     body_len |-> 0]

\* ShortestPathAlgorithm.__init__: the path is empty.
NoAlgorithm == path = <<>> /\ plan = NoPlan

\* The indexes of a Graph are not part of the state: the edges are looked
\* up in the set of edges.
NoIndex == edge_dict = <<>> /\ incidence_dict = <<>>

\* No VertexFactory is part of the state.
NoFactory == next_id_int = <<>> /\ created = <<>>

\* No GraphLayout is part of the state.
NoLayout == vertex_coordinates_dict = <<>> /\ width = 0 /\ height = 0

\* vertex is no endpoint of edge.
edge_misses(edge, vertex) == edge[1] # vertex /\ edge[2] # vertex

\* The endpoint of edge across vertex.
edge_other(edge, vertex) == IF edge[1] = vertex THEN edge[2] ELSE edge[1]

\* get_other without its raise: a vertex that is not the first endpoint is
\* taken for the second.
get_other_without_raise(edge, vertex) ==
    IF edge[1] = vertex THEN edge[2] ELSE edge[1]

\* Edge.get_other
get_other(edge, vertex) ==
    IF edge[1] = vertex THEN edge[2]
    ELSE IF edge[2] = vertex THEN edge[1]
    ELSE ValueError

Range(s) == {s[i] : i \in DOMAIN s}

\* Graph.get_incident_edges
get_incident_edges(E, vertex) ==
    {edge \in E : edge[1] = vertex \/ edge[2] = vertex}

\* verify without the final test that the tail was not visited before.
RECURSIVE verify_from_any_tail(_, _, _, _)
verify_from_any_tail(segment, segments, b, t) ==
    IF b = <<>> THEN segment = t
    ELSE IF segment \in segments THEN FALSE
    ELSE IF edge_misses(Head(b), segment) THEN FALSE
    ELSE verify_from_any_tail(edge_other(Head(b), segment),
                              segments \cup {segment}, Tail(b), t)

\* Snake.verify: the loop over body, then the final test.
RECURSIVE verify_from(_, _, _, _)
verify_from(segment, segments, b, t) ==
    IF b = <<>> THEN segment = t /\ t \notin segments
    ELSE IF segment \in segments THEN FALSE
    ELSE IF get_other(Head(b), segment) = ValueError THEN FALSE
    ELSE verify_from(get_other(Head(b), segment), segments \cup {segment},
                     Tail(b), t)

verify(h, b, t) == verify_from(h, {}, b, t)

\* Snake.get_segments raises ValueError: some edge of body is not incident
\* with the vertex the walk has reached.
RECURSIVE segments_raise(_, _)
segments_raise(segment, b) ==
    IF b = <<>> THEN FALSE
    ELSE IF get_other(Head(b), segment) = ValueError THEN TRUE
    ELSE segments_raise(get_other(Head(b), segment), Tail(b))

\* The walk of get_segments that takes the first vertex of every edge.
segments_of_first_vertices(segment, b) == [i \in DOMAIN b |-> b[i][1]]

\* Snake.get_segments: the start vertex of every body edge, then tail.
RECURSIVE segments_walk(_, _)
segments_walk(segment, b) ==
    IF b = <<>> THEN <<>>
    ELSE <<segment>> \o segments_walk(get_other(Head(b), segment), Tail(b))

\* get_segments that forgets to append the tail.
get_segments_without_tail(h, b, t) == segments_walk(h, b)

get_segments(h, b, t) == segments_walk(h, b) \o <<t>>

\* update_types that never sets the left vertex and edge to EMPTY.
update_types_without_left(h, b, t, le, vt, et) ==
    LET segs == Range(segments_walk(h, b) \o <<t>>) IN
    [vtype |-> [v \in DOMAIN vt |-> IF v \in segs THEN "SNAKE" ELSE vt[v]],
     etype |-> [e \in DOMAIN et |-> IF e \in Range(b) THEN "SNAKE" ELSE et[e]],
     result |-> "ok"]

\* update_types that sets the left vertex to EMPTY and leaves the left
\* edge as it is.
update_types_keeps_left_edge(h, b, t, le, vt, et) ==
    LET segs == Range(segments_walk(h, b) \o <<t>>)
        vt1 == [v \in DOMAIN vt |-> IF v \in segs THEN "SNAKE" ELSE vt[v]]
    IN
    [vtype |-> IF le = None THEN vt1
               ELSE [vt1 EXCEPT ![get_other_without_raise(le, t)] = "EMPTY"],
     etype |-> [e \in DOMAIN et |-> IF e \in Range(b) THEN "SNAKE" ELSE et[e]],
     result |-> "ok"]

\* Snake.update_types on the snake (h, b, t, le) and the types (vt, et):
\* the types afterwards, and whether it raised.
update_types(h, b, t, le, vt, et) ==
    IF segments_raise(h, b)
    THEN [vtype |-> vt, etype |-> et, result |-> "ValueError"]
    ELSE LET segs == Range(get_segments(h, b, t))
             vt1 == [v \in DOMAIN vt |-> IF v \in segs THEN "SNAKE" ELSE vt[v]]
             et1 == [e \in DOMAIN et |->
                        IF e \in Range(b) THEN "SNAKE" ELSE et[e]]
         IN IF le = None
            THEN [vtype |-> vt1, etype |-> et1, result |-> "ok"]
            ELSE IF get_other(le, t) = ValueError
            THEN [vtype |-> vt1, etype |-> et1, result |-> "ValueError"]
            ELSE [vtype |-> [vt1 EXCEPT ![get_other(le, t)] = "EMPTY"],
                  etype |-> [et1 EXCEPT ![le] = "EMPTY"],
                  result |-> "ok"]

\* A collision test that forgets the snake's own vertices.
deadly_wall_only(type) == type = "WALL"

\* A collision test that forgets the walls.
deadly_snake_only(type) == type = "SNAKE"

\* The vertex types Snake.move dies on.
deadly(type) == type \in {"WALL", "SNAKE"}

\* A grow move that leaves the body as it is.
grown_body_without_edge(edge, b) == b

\* The body after Snake.move has grown along edge.
grown_body(edge, b) == <<edge>> \o b

\* The body after Snake.move has slid along edge.
slid_body(edge, b) == <<edge>> \o SubSeq(b, 1, Len(b) - 1)

\* _on_eaten_apple that keeps the eaten apple.
on_eaten_apple_keeps(A, vertex) == A

\* GameGraph._on_eaten_apple: the apples left when vertex is removed.
on_eaten_apple(A, vertex) == A \ {vertex}

\* Snake.move(edge) on the game state g, with GameGraph._on_eaten_apple as the
\* snake's apple callback; observer_raises tells whether the registered
\* GameGraph.apple_callback raises.  Gives the game state the call leaves,
\* how it ended, how often the observer was invoked and the game state
\* the observer was invoked in (seen).
move(g, edge, observer_raises) ==
    LET next_vertex == get_other(edge, g.head)
        out(s, r, n) == [game |-> s, result |-> r, fired |-> n, seen |-> None]
    IN
    IF next_vertex = ValueError THEN out(g, "ValueError", 0)
    ELSE IF deadly(g.vtype[next_vertex]) THEN out(g, "Exception", 0)
    ELSE
    LET g1 == [g EXCEPT !.head = next_vertex] IN
    IF g.vtype[next_vertex] = "APPLE"
    THEN IF next_vertex \notin g.apples THEN out(g1, "KeyError", 0)
         ELSE
         LET g2 == [g1 EXCEPT !.apples = on_eaten_apple(g.apples, next_vertex)]
         IN
         IF observer_raises
         THEN [out(g2, "ObserverError", 1) EXCEPT !.seen = g2]
         ELSE
         LET b2 == grown_body(edge, g.body)
             u == update_types(g2.head, b2, g2.tail, None, g2.vtype, g2.etype)
         IN [out([g2 EXCEPT !.left_edge = None, !.body = b2,
                            !.vtype = u.vtype, !.etype = u.etype],
                 u.result, 1) EXCEPT !.seen = g2]
    ELSE
    IF g.body = <<>> THEN out(g1, "IndexError", 0)
    ELSE
    LET le == g.body[Len(g.body)]
        b2 == slid_body(edge, g.body)
        g2 == [g1 EXCEPT !.left_edge = le, !.body = b2]
        t2 == get_other(le, g.tail)
    IN
    IF t2 = ValueError THEN out(g2, "ValueError", 0)
    ELSE
    LET u == update_types(g2.head, b2, t2, le, g2.vtype, g2.etype)
    IN out([g2 EXCEPT !.tail = t2, !.vtype = u.vtype, !.etype = u.etype],
           u.result, 0)

\* _get_empty_vertices that takes the vertices of type NONE as well.
get_empty_or_none_vertices(V, vt) ==
    {vertex \in V : vt[vertex] \in {"EMPTY", "NONE"}}

\* _get_empty_vertices that takes the vertices of type WALL as well.
get_empty_or_wall_vertices(V, vt) ==
    {vertex \in V : vt[vertex] \in {"EMPTY", "WALL"}}

\* GameGraph._get_empty_vertices
get_empty_vertices(V, vt) == {vertex \in V : vt[vertex] = "EMPTY"}

\* ---------------------------------------------------------------- boards
\* A board of two rows and GridWidth columns: vertex v is in column
\* (v - 1) % GridWidth, and the rows are 1..GridWidth and the rest.
BoardVertices == 1 .. (2 * GridWidth)

BoardEdges ==
    {<<a, a + 1>> : a \in {v \in BoardVertices : v % GridWidth # 0}}
    \cup {<<a, a + GridWidth>> : a \in 1 .. GridWidth}

\* Graph.get_edge
get_edge(E, first, second) ==
    IF <<first, second>> \in E THEN <<first, second>>
    ELSE IF <<second, first>> \in E THEN <<second, first>>
    ELSE None

\* The lists of vertices a GameGraph is constructed with, head first: two
\* vertices of the first row, or these and the vertex below the second.
SnakeVertices == {<<2, 1>>, <<2, 1, GridWidth + 1>>}

\* The typings of the vertices a GameGraph is constructed with: all EMPTY,
\* but for the last vertex, which has any type.
VertexTypings ==
    {[v \in BoardVertices |-> IF v = 2 * GridWidth THEN ty ELSE "EMPTY"] :
        ty \in VertexType}

\* Snake.from_vertices: the body of the snake on the given vertices.
from_vertices_body(E, sv) ==
    [i \in 1 .. (Len(sv) - 1) |-> get_edge(E, sv[i], sv[i + 1])]

NoCall == [op |-> "init", edge |-> None]

\* The last call raised after it had changed the game: the exception leaves
\* the driver's loop (src/snake/main.py has no handler), and no further call
\* is made on the game.
Crashed == result # "ok" /\ Game # pre

\* No call of get_snakes_next_edges was made since the last move_snake.
NotSeen == [called |-> FALSE, again |-> FALSE, edges |-> {}]

\* GameGraph.get_snakes_next_edges that forgets the test of the edge type.
get_snakes_next_edges_of_any_type(E, g) == get_incident_edges(E, g.head)

\* get_snakes_next_edges that also leaves out the edges to an apple.
get_snakes_next_edges_but_apples(E, g) ==
    {edge \in get_incident_edges(E, g.head) :
        /\ g.etype[edge] # "SNAKE"
        /\ g.vtype[get_other(edge, g.head)] # "APPLE"}

\* GameGraph.get_snakes_next_edges
get_snakes_next_edges(E, g) ==
    {edge \in get_incident_edges(E, g.head) : g.etype[edge] # "SNAKE"}

\* generate_apple that returns silently when there is no EMPTY vertex.
generate_apple_or_nothing(g, V) ==
    IF get_empty_vertices(V, g.vtype) = {}
    THEN {[game |-> g, result |-> "ok"]}
    ELSE {[game |-> [g EXCEPT !.vtype = [g.vtype EXCEPT ![apple] = "APPLE"],
                              !.apples = g.apples \cup {apple}],
           result |-> "ok"] : apple \in get_empty_vertices(V, g.vtype)}

\* GameGraph.generate_apple(): the outcomes random.randrange allows;
\* random.randrange(0) raises ValueError.
generate_apple(g, V) ==
    LET empty_vertices == get_empty_vertices(V, g.vtype) IN
    IF empty_vertices = {}
    THEN {[game |-> g, result |-> "ValueError"]}
    ELSE {[game |-> [g EXCEPT !.vtype = [g.vtype EXCEPT ![apple] = "APPLE"],
                              !.apples = g.apples \cup {apple}],
           result |-> "ok"] : apple \in empty_vertices}

\* The test of generate_apple_if_missing turned into one that always holds.
apple_missing_always(A) == TRUE

\* The test of generate_apple_if_missing that allows a second apple.
apple_missing_below_two(A) == Cardinality(A) < 2

\* The test of GameGraph.generate_apple_if_missing.
apple_missing(A) == Cardinality(A) = 0

\* GameGraph.generate_apple_if_missing(): its outcomes.
generate_apple_if_missing(g, V) ==
    IF apple_missing(g.apples) THEN generate_apple(g, V)
    ELSE {[game |-> g, result |-> "ok"]}

\* Score.__init__ for n Score objects in turn: every one takes both
\* callbacks of the graph.
NewScores(n) == [i \in 1 .. n |-> [moves |-> 0, score |-> 0]]

\* GameGraph._on_eaten_apple calls self.apple_callback(): the Score objects
\* after it, Score._on_eaten_apple being the callback when slot is not 0.
call_apple_callback(S, slot) ==
    IF slot = 0 THEN S ELSE [S EXCEPT ![slot].score = @ + 1]

\* GameGraph.__init__(vertices, edges, snake_vertices), then Score(graph)
\* num_scores times.
NewGameOn(V, E, snakes, typings, num_scores) ==
    \E vt \in typings, sv \in snakes :
        LET b == from_vertices_body(E, sv)
            u == update_types(sv[1], b, sv[Len(sv)], None, vt,
                              [e \in E |-> "NONE"])
        IN /\ vertices = V
           /\ edges = E
           /\ head = sv[1]
           /\ body = b
           /\ tail = sv[Len(sv)]
           /\ left_edge = None
           /\ vtype = u.vtype
           /\ etype = u.etype
           /\ apples = {}
           /\ call = NoCall
           /\ result = "ok"
           /\ fired = 0
           /\ scores = NewScores(num_scores)
           /\ apple_callback = num_scores
           /\ move_callback = num_scores
           /\ move_calls = 0
           /\ pre = Game
           /\ dead = FALSE
           /\ returned = None
           /\ next_edges_seen = NotSeen
           /\ NoAlgorithm
           /\ NoIndex
           /\ NoFactory
           /\ NoLayout

NewGame(num_scores) ==
    NewGameOn(BoardVertices, BoardEdges, SnakeVertices, VertexTypings,
              num_scores)

Init == NewGame(0)

\* GameGraph.move_snake(edge).  An observer that is not a Score may raise;
\* nothing calls move_callback.
MoveSnakeCall(edge) ==
    \E m \in {move(Game, edge, observer_raises) :
                observer_raises \in IF apple_callback = 0 THEN BOOLEAN
                                    ELSE {FALSE}} :
    /\ ~Crashed
    /\ move_calls < MaxMoves
    /\ vtype' = m.game.vtype
    /\ etype' = m.game.etype
    /\ head' = m.game.head
    /\ body' = m.game.body
    /\ tail' = m.game.tail
    /\ left_edge' = m.game.left_edge
    /\ apples' = m.game.apples
    /\ scores' = IF m.fired = 1 THEN call_apple_callback(scores, apple_callback)
                 ELSE scores
    /\ call' = [op |-> "move_snake", edge |-> edge]
    /\ result' = m.result
    /\ fired' = m.fired
    /\ pre' = Game
    /\ dead' = (dead \/ m.result = "Exception")
    /\ returned' = None
    /\ next_edges_seen' = NotSeen
    /\ move_calls' = IF scores = <<>> THEN move_calls ELSE move_calls + 1
    /\ UNCHANGED <<vertices, edges, apple_callback, move_callback>>
    /\ UNCHANGED <<index_vars, factory_vars, layout_vars>>

MoveSnake(edge) == MoveSnakeCall(edge) /\ UNCHANGED algorithm_vars

\* A call that changes the apples only: its outcome o is left.
AppleCall(op, o) ==
    /\ vtype' = o.game.vtype
    /\ apples' = o.game.apples
    /\ result' = o.result
    /\ call' = [op |-> op, edge |-> None]
    /\ fired' = 0
    /\ pre' = Game
    /\ returned' = None
    /\ UNCHANGED <<vertices, edges, etype, head, body, tail, left_edge,
                   dead, next_edges_seen, scores, apple_callback,
                   move_callback, move_calls>>
    /\ UNCHANGED <<algorithm_vars, index_vars, factory_vars, layout_vars>>

\* GameGraph.generate_apple()
GenerateApple ==
    /\ ~Crashed
    /\ Cardinality(apples) < MaxApples
    /\ \E o \in generate_apple(Game, vertices) :
           AppleCall("generate_apple", o)

\* GameGraph.generate_apple_if_missing()
GenerateAppleIfMissing ==
    /\ ~Crashed
    /\ \E o \in generate_apple_if_missing(Game, vertices) :
           AppleCall("generate_apple_if_missing", o)

\* A call that changes nothing and returns value, or raises.
Query(op, raises, value) ==
    /\ ~Crashed
    /\ call' = [op |-> op, edge |-> None]
    /\ result' = IF raises THEN "ValueError" ELSE "ok"
    /\ returned' = IF raises THEN None ELSE value
    /\ fired' = 0
    /\ pre' = Game
    /\ UNCHANGED <<vertices, edges, vtype, etype, head, body, tail,
                   left_edge, apples, dead, scores, apple_callback,
                   move_callback, move_calls>>
    /\ UNCHANGED <<index_vars, factory_vars, layout_vars>>

\* Snake.get_segments()
GetSegments ==
    /\ Query("get_segments", segments_raise(head, body),
             get_segments(head, body, tail))
    /\ UNCHANGED <<next_edges_seen, algorithm_vars>>

\* GameGraph.get_snakes_next_edges()
GetSnakesNextEdges ==
    /\ Query("get_snakes_next_edges", FALSE,
             get_snakes_next_edges(edges, Game))
    /\ next_edges_seen' =
           IF next_edges_seen.called
           THEN [next_edges_seen EXCEPT !.again = TRUE]
           ELSE [called |-> TRUE, again |-> FALSE,
                 edges |-> get_snakes_next_edges(edges, Game)]
    /\ UNCHANGED algorithm_vars

Next ==
    \/ \E edge \in edges : MoveSnake(edge)
    \/ GenerateApple
    \/ GenerateAppleIfMissing
    \/ GetSegments
    \/ GetSnakesNextEdges

Spec == Init /\ [][Next]_vars

\* ------------------------------------------------ a game with Score objects
\* The game with one Score, or with two made one after the other.
InitScore == \E num_scores \in {1, 2} : NewGame(num_scores)

NextScore ==
    \/ \E edge \in edges : MoveSnake(edge)
    \/ GenerateApple
    \/ GenerateAppleIfMissing

SpecScore == InitScore /\ [][NextScore]_vars

\* --------------------------------------------------- the Snake constructor
SnakeArgVertices == 1 .. NumSnakeVertices

\* Every undirected Edge(first, second) over these vertices, looped edges
\* included; Edge(a, b) and Edge(b, a) are equal, and one of them is taken.
SnakeArgEdges ==
    {e \in SnakeArgVertices \X SnakeArgVertices : e[1] <= e[2]}

SnakeArgBodies == UNION {[1 .. n -> SnakeArgEdges] : n \in 0 .. MaxBody}

\* What no call has touched: no Score, nothing returned.
Untried ==
    /\ call = NoCall
    /\ result = "ok"
    /\ fired = 0
    /\ dead = FALSE
    /\ returned = None
    /\ next_edges_seen = NotSeen
    /\ scores = <<>>
    /\ apple_callback = 0
    /\ move_callback = 0
    /\ move_calls = 0
    /\ NoAlgorithm
    /\ NoIndex
    /\ NoFactory
    /\ NoLayout

\* The arguments of Snake(head, body, tail), stored in the fields before
\* verify() runs; fresh vertices and edges have the type NONE.
InitSnake ==
    \E h \in SnakeArgVertices, b \in SnakeArgBodies, t \in SnakeArgVertices :
        /\ vertices = SnakeArgVertices
        /\ edges = SnakeArgEdges
        /\ head = h
        /\ body = b
        /\ tail = t
        /\ left_edge = None
        /\ vtype = [v \in SnakeArgVertices |-> "NONE"]
        /\ etype = [e \in SnakeArgEdges |-> "NONE"]
        /\ apples = {}
        /\ Untried
        /\ pre = Game

\* Snake.__init__: verify(), then update_types().
SnakeNew ==
    /\ call.op = "init"
    /\ call' = [op |-> "Snake", edge |-> None]
    /\ pre' = Game
    /\ IF ~verify(head, body, tail)
       THEN /\ result' = "ValueError"
            /\ UNCHANGED <<vtype, etype>>
       ELSE LET u == update_types(head, body, tail, left_edge, vtype, etype)
            IN /\ result' = u.result
               /\ vtype' = u.vtype
               /\ etype' = u.etype
    /\ UNCHANGED <<vertices, edges, head, body, tail, left_edge, apples,
                   fired, dead, returned, next_edges_seen, scores,
                   apple_callback, move_callback, move_calls>>
    /\ UNCHANGED <<algorithm_vars, index_vars, factory_vars, layout_vars>>

NextSnake == SnakeNew

SpecSnake == InitSnake /\ [][NextSnake]_vars

\* ------------------------------------------------- Snake.from_vertices
\* Snake.verify raises AttributeError: its loop reaches an edge that is
\* None (what get_edge gave for two vertices no edge joins) before it
\* returns.
RECURSIVE verify_meets_none(_, _, _)
verify_meets_none(segment, segments, b) ==
    IF b = <<>> THEN FALSE
    ELSE IF segment \in segments THEN FALSE
    ELSE IF Head(b) = None THEN TRUE
    ELSE IF get_other(Head(b), segment) = ValueError THEN FALSE
    ELSE verify_meets_none(get_other(Head(b), segment),
                           segments \cup {segment}, Tail(b))

\* Snake.from_vertices(graph, snake_vertices) on the graph with the edges E
\* and the types vt, et: how it ends, and the snake and the types it
\* leaves.
from_vertices(E, sv, vt, et) ==
    LET failed(r) == [result |-> r, head |-> None, body |-> <<>>,
                      tail |-> None, vtype |-> vt, etype |-> et]
    IN
    IF Len(sv) < 2 THEN failed("ValueError")
    ELSE
    LET h == sv[1]
        b == from_vertices_body(E, sv)
        t == sv[Len(sv)]
    IN
    IF verify_meets_none(h, {}, b) THEN failed("AttributeError")
    ELSE IF ~verify(h, b, t) THEN failed("ValueError")
    ELSE LET u == update_types(h, b, t, None, vt, et)
         IN [result |-> u.result, head |-> h, body |-> b, tail |-> t,
             vtype |-> u.vtype, etype |-> u.etype]

SnakeVertexLists ==
    UNION {[1 .. n -> BoardVertices] : n \in 0 .. MaxSnakeVertices}

\* A graph without a snake, and the list of vertices to make one from.
InitFromVertices ==
    \E vt \in VertexTypings, sv \in SnakeVertexLists :
        /\ vertices = BoardVertices
        /\ edges = BoardEdges
        /\ vtype = vt
        /\ etype = [e \in BoardEdges |-> "NONE"]
        /\ head = None
        /\ body = <<>>
        /\ tail = None
        /\ left_edge = None
        /\ apples = {}
        /\ call = [op |-> "init", edge |-> None, snake_vertices |-> sv]
        /\ result = "ok"
        /\ fired = 0
        /\ dead = FALSE
        /\ returned = None
        /\ next_edges_seen = NotSeen
        /\ scores = <<>>
        /\ apple_callback = 0
        /\ move_callback = 0
        /\ move_calls = 0
        /\ NoAlgorithm
        /\ NoIndex
        /\ NoFactory
        /\ NoLayout
        /\ pre = Game

\* Snake.from_vertices(graph, snake_vertices)
FromVertices ==
    LET f == from_vertices(edges, call.snake_vertices, vtype, etype) IN
    /\ call.op = "init"
    /\ call' = [call EXCEPT !.op = "from_vertices"]
    /\ pre' = Game
    /\ result' = f.result
    /\ head' = f.head
    /\ body' = f.body
    /\ tail' = f.tail
    /\ vtype' = f.vtype
    /\ etype' = f.etype
    /\ UNCHANGED <<vertices, edges, left_edge, apples, fired, dead, returned,
                   next_edges_seen, scores, apple_callback, move_callback,
                   move_calls>>
    /\ UNCHANGED <<algorithm_vars, index_vars, factory_vars, layout_vars>>

NextFromVertices == FromVertices

SpecFromVertices == InitFromVertices /\ [][NextFromVertices]_vars

\* --------------------------------------------- the ShortestPathAlgorithm
\* The algorithm plays on a board of two rows that is one column wider
\* than the board of the game above.
AlgorithmWidth == GridWidth + 1

AlgorithmVertices == 1 .. (2 * AlgorithmWidth)

AlgorithmEdges ==
    {<<a, a + 1>> : a \in {v \in AlgorithmVertices : v % AlgorithmWidth # 0}}
    \cup {<<a, a + AlgorithmWidth>> : a \in 1 .. AlgorithmWidth}

\* The same without the last edge of the second row: the last vertex is
\* left with one neighbour.
AlgorithmEdgesWithDeadEnd ==
    AlgorithmEdges \ {<<2 * AlgorithmWidth - 1, 2 * AlgorithmWidth>>}

AlgorithmBoards == {AlgorithmEdges, AlgorithmEdgesWithDeadEnd}

\* The snakes the game starts with, head first.
AlgorithmSnakes == {<<2, 1>>, <<2, 1, AlgorithmWidth + 1>>}

\* The typings generate_grid and IsometricGridBuilder give: EMPTY and WALL.
BuilderTypings ==
    {[v \in AlgorithmVertices |->
         IF v = 2 * AlgorithmWidth THEN ty ELSE "EMPTY"] :
        ty \in {"EMPTY", "WALL"}}

\* available_vertices that keeps the vertices of the snake.
available_vertices_with_snake(V, g) ==
    {vertex \in V : g.vtype[vertex] # "WALL"} \cup {g.head}

\* available_vertices that keeps the walls.
available_vertices_with_walls(V, g) ==
    {vertex \in V : g.vtype[vertex] # "SNAKE"} \cup {g.head}

\* _find_shortest_path: the vertices of the subgraph that is searched.
available_vertices(V, g) ==
    {vertex \in V : g.vtype[vertex] \notin {"WALL", "SNAKE"}} \cup {g.head}

\* Lists of n + 1 different nodes from source, adjacent or not.
RECURSIVE paths_of_any_hops(_, _, _, _)
paths_of_any_hops(E, A, source, n) ==
    IF n = 0 THEN {<<source>>}
    ELSE UNION {{Append(p, v) : v \in A \ Range(p)} :
                p \in paths_of_any_hops(E, A, source, n - 1)}

\* The simple paths of n edges from source in the subgraph of E induced by
\* the nodes A, as lists of vertices.
RECURSIVE paths_of_length(_, _, _, _)
paths_of_length(E, A, source, n) ==
    IF n = 0 THEN {<<source>>}
    ELSE UNION {{Append(p, v) : v \in {w \in A \ Range(p) :
                                          get_edge(E, p[Len(p)], w) # None}} :
                p \in paths_of_length(E, A, source, n - 1)}

\* The paths from source to target with the fewest edges, none having
\* fewer than n; the empty set when there is no path.
RECURSIVE shortest_paths_from(_, _, _, _, _)
shortest_paths_from(E, A, source, target, n) ==
    IF n >= Cardinality(A) THEN {}
    ELSE LET reaching == {p \in paths_of_length(E, A, source, n) :
                             p[Len(p)] = target}
         IN IF reaching # {} THEN reaching
            ELSE shortest_paths_from(E, A, source, target, n + 1)

\* nx.shortest_path(nx_subgraph, source, target): every list it may return;
\* the empty set stands for NetworkXNoPath.
shortest_path(E, A, source, target) ==
    shortest_paths_from(E, A, source, target, 0)

\* RandomEdgeAlgorithm.choose_next_edge: random.sample(snake_edges, 1)[0]
\* gives any of the edges and raises ValueError when there is none.
random_edge(E, g) ==
    IF get_snakes_next_edges(E, g) = {}
    THEN {[result |-> "ValueError", returned |-> None]}
    ELSE {[result |-> "ok", returned |-> edge] :
            edge \in get_snakes_next_edges(E, g)}

\* ShortestPathAlgorithm.choose_next_edge with the cached path p: how it
\* may end, what it returns, the path it leaves and what
\* _find_shortest_path did.
choose_next_edge(V, E, g, p) ==
    LET out(r, e, q, pl) ==
            [result |-> r, returned |-> e, path |-> q, plan |-> pl]
        searched(t, f) ==
            [searched |-> TRUE, target |-> t, found |-> f, moved |-> 0,
             body_len |-> Len(g.body)]
        backup(t) ==
            {out(c.result, c.returned, <<>>, searched(t, <<>>)) :
                c \in random_edge(E, g)}
    IN
    IF p # <<>>
    THEN {out("ok", get_edge(E, g.head, Head(p)), Tail(p), None)}
    ELSE IF g.apples = {}
    THEN {out("IndexError", None, p, searched(0, <<>>))}
    ELSE UNION {
        IF target \notin available_vertices(V, g)
        THEN {out("NodeNotFound", None, p, searched(target, <<>>))}
        ELSE LET found == {Tail(q) : q \in shortest_path(
                              E, available_vertices(V, g), g.head, target)}
             IN IF found \subseteq {<<>>} THEN backup(target)
                ELSE {out("ok", get_edge(E, g.head, Head(f)), Tail(f),
                          searched(target, f)) : f \in found}
        : target \in g.apples}

\* GameGraph.__init__ on one of the boards, Score(graph) and
\* ShortestPathAlgorithm(graph), as src/snake/main.py makes them.
InitAlgorithm ==
    \E E \in AlgorithmBoards :
        NewGameOn(AlgorithmVertices, E, AlgorithmSnakes, BuilderTypings, 1)

\* ShortestPathAlgorithm.choose_next_edge(), the first half of
\* AIController.move_snake.
ChooseNextEdge ==
    /\ result = "ok"
    /\ call.op # "choose_next_edge"
    /\ move_calls < MaxMoves
    /\ \E c \in choose_next_edge(vertices, edges, Game, path) :
        /\ call' = [op |-> "choose_next_edge", edge |-> None]
        /\ result' = c.result
        /\ returned' = c.returned
        /\ path' = c.path
        /\ plan' = IF c.plan = None THEN [plan EXCEPT !.searched = FALSE]
                   ELSE c.plan
        /\ fired' = 0
        /\ pre' = Game
    /\ UNCHANGED <<game_vars, index_vars, factory_vars, layout_vars>>

\* graph.move_snake(snake_next_edge), the second half of
\* AIController.move_snake.
MoveSnakeChosen ==
    /\ result = "ok"
    /\ call.op = "choose_next_edge"
    /\ plan' = [plan EXCEPT !.moved = @ + 1]
    /\ UNCHANGED path
    /\ IF returned = None
       THEN /\ call' = [op |-> "move_snake", edge |-> None]
            /\ result' = "AttributeError"
            /\ fired' = 0
            /\ pre' = Game
            /\ UNCHANGED <<game_vars, returned, index_vars, factory_vars,
                           layout_vars>>
       ELSE MoveSnakeCall(returned)

\* graph.generate_apple_if_missing() of the loop of src/snake/main.py.
LoopGenerateAppleIfMissing ==
    /\ result = "ok"
    /\ call.op # "choose_next_edge"
    /\ GenerateAppleIfMissing

NextAlgorithm ==
    \/ ChooseNextEdge
    \/ MoveSnakeChosen
    \/ LoopGenerateAppleIfMissing

SpecAlgorithm == InitAlgorithm /\ [][NextAlgorithm]_vars

\* ------------------------------------------------------ Graph and Edge
\* No Snake, Score or algorithm is part of the state, and no call was made.
NoSnake ==
    /\ vtype = <<>>
    /\ etype = <<>>
    /\ head = None
    /\ body = <<>>
    /\ tail = None
    /\ left_edge = None
    /\ apples = {}
    /\ result = "ok"
    /\ fired = 0
    /\ dead = FALSE
    /\ returned = None
    /\ next_edges_seen = NotSeen
    /\ scores = <<>>
    /\ apple_callback = 0
    /\ move_callback = 0
    /\ move_calls = 0
    /\ NoAlgorithm

GraphArgVertices == 1 .. NumGraphVertices

\* Edge(first, second, type, directed) for every first, second and
\* directed; here an edge is the record of its fields.
GraphArgEdges ==
    [first : GraphArgVertices, second : GraphArgVertices,
     directed : BOOLEAN]

\* Edge.__eq__ that compares the vertices of undirected edges in order.
edge_eq_in_order(self, other) ==
    /\ self.directed = other.directed
    /\ self.first = other.first
    /\ self.second = other.second

\* Edge.__eq__
edge_eq(self, other) ==
    IF self.directed
    THEN /\ other.directed
         /\ self.first = other.first
         /\ self.second = other.second
    ELSE /\ ~other.directed
         /\ \/ self.first = other.first /\ self.second = other.second
            \/ self.first = other.second /\ self.second = other.first

\* Vertex.__hash__: the hash of the id, a value of its own for every id.
vertex_hash(vertex) == vertex

\* Edge.__hash__: the hash of a tuple is the tuple of the hashes.
edge_hash(self) ==
    IF self.directed
    THEN <<self.directed, vertex_hash(self.first), vertex_hash(self.second)>>
    ELSE <<self.directed, vertex_hash(self.first) + vertex_hash(self.second)>>

\* The sets of at most MaxGraphEdges edges a Python set can hold: no two
\* of its members are equal.
GraphArgEdgeSets ==
    {E \in SUBSET GraphArgEdges :
        /\ Cardinality(E) <= MaxGraphEdges
        /\ \A e, f \in E : e # f => ~edge_eq(e, f)}

\* Graph.verify without the test for looped edges.
graph_verify_with_loops(V, E) ==
    \A edge \in E : edge.first \in V /\ edge.second \in V

\* Graph.verify
graph_verify(V, E) ==
    \A edge \in E :
        ~(\/ edge.first \notin V
          \/ edge.second \notin V
          \/ edge.first = edge.second)

\* The edges Graph.__init__ stores in _edge_dict[first][second].
edge_dict_writes(E, first, second) ==
    {edge \in E :
        \/ edge.first = first /\ edge.second = second
        \/ ~edge.directed /\ edge.second = first /\ edge.first = second}

\* The _edge_dict that keeps directed edges only.
edge_dicts_of_directed(V, E) ==
    {[first \in V |->
        [second \in {v \in V : \E edge \in E : /\ edge.directed
                                                 /\ edge.first = first
                                                 /\ edge.second = v} |->
            CHOOSE edge \in E : /\ edge.directed
                                /\ edge.first = first
                                /\ edge.second = second]]}

\* The _edge_dict Graph.__init__ builds: of the edges written to one entry
\* the last in the iteration order of the set stays, which may be any.
edge_dicts(V, E) ==
    LET seconds(first) ==
            {second \in V : edge_dict_writes(E, first, second) # {}}
        rows(first) ==
            {row \in [seconds(first) -> E] :
                \A second \in seconds(first) :
                    row[second] \in edge_dict_writes(E, first, second)}
    IN {d \in [V -> UNION {rows(first) : first \in V}] :
           \A first \in V : d[first] \in rows(first)}

\* The _incidence_dict Graph.__init__ builds.
incidence_dict_of(V, E) ==
    [vertex \in V |->
        {edge \in E : edge.first = vertex \/ edge.second = vertex}]

\* Graph.get_edge: self._edge_dict[first].get(second)
graph_get_edge(d, first, second) ==
    IF second \in DOMAIN d[first] THEN d[first][second] ELSE None

\* The arguments of Graph(vertices, edges), stored in the fields before
\* verify() runs.
InitGraph ==
    \E V \in SUBSET GraphArgVertices, E \in GraphArgEdgeSets :
        /\ vertices = V
        /\ edges = E
        /\ NoSnake
        /\ call = NoCall
        /\ NoIndex
        /\ NoFactory
        /\ NoLayout
        /\ pre = Game

\* Graph.__init__: verify(), then the two indexes.
GraphNew ==
    /\ call.op = "init"
    /\ call' = [op |-> "Graph", edge |-> None]
    /\ pre' = Game
    /\ IF ~graph_verify(vertices, edges)
       THEN /\ result' = "ValueError"
            /\ UNCHANGED index_vars
       ELSE /\ result' = "ok"
            /\ edge_dict' \in edge_dicts(vertices, edges)
            /\ incidence_dict' = incidence_dict_of(vertices, edges)
    /\ UNCHANGED <<game_vars, fired, returned, algorithm_vars, factory_vars,
                   layout_vars>>

\* Graph.get_edge(first, second) on a constructed graph.
GetEdge(first, second) ==
    /\ call.op # "init"
    /\ edge_dict # <<>>
    /\ call' = [op |-> "get_edge", edge |-> None, first |-> first,
                second |-> second]
    /\ result' = "ok"
    /\ returned' = graph_get_edge(edge_dict, first, second)
    /\ pre' = Game
    /\ UNCHANGED <<game_vars, fired, algorithm_vars, index_vars,
                   factory_vars, layout_vars>>

NextGraph ==
    \/ GraphNew
    \/ \E first, second \in vertices : GetEdge(first, second)

SpecGraph == InitGraph /\ [][NextGraph]_vars

\* Two edges to compare, with types of their own.
InitEdge ==
    \E self, other \in GraphArgEdges, self_type, other_type \in EdgeType :
        /\ vertices = GraphArgVertices
        /\ edges = {}
        /\ NoSnake
        /\ call = [op |-> "init", edge |-> None,
                   self |-> self, self_type |-> self_type,
                   other |-> other, other_type |-> other_type]
        /\ NoIndex
        /\ NoFactory
        /\ NoLayout
        /\ pre = Game

\* self == other, hash(self) and hash(other)
EdgeEq ==
    /\ call.op = "init"
    /\ call' = [call EXCEPT !.op = "Edge.__eq__"]
    /\ result' = "ok"
    /\ returned' = [eq |-> edge_eq(call.self, call.other),
                    self_hash |-> edge_hash(call.self),
                    other_hash |-> edge_hash(call.other)]
    /\ pre' = Game
    /\ UNCHANGED <<game_vars, fired, algorithm_vars, index_vars,
                   factory_vars, layout_vars>>

NextEdge == EdgeEq

SpecEdge == InitEdge /\ [][NextEdge]_vars

\* -------------------------------------------------------- VertexFactory
Factories == 1 .. NumFactories

\* VertexFactory() for every factory.
InitFactory ==
    /\ vertices = {}
    /\ edges = {}
    /\ NoSnake
    /\ call = NoCall
    /\ NoIndex
    /\ next_id_int = [factory \in Factories |-> 0]
    /\ created = <<>>
    /\ NoLayout
    /\ pre = Game

\* VertexFactory.create_vertex(type) on one of the factories; the id
\* str(n) is written n, the decimal numerals of different numbers being
\* different.
CreateVertexOf(factory, type) ==
    /\ Len(created) < MaxCreated
    /\ call' = [op |-> "create_vertex", edge |-> None, factory |-> factory]
    /\ result' = "ok"
    /\ returned' = [id |-> next_id_int[factory], type |-> type]
    /\ created' = Append(created, [id |-> next_id_int[factory],
                                   type |-> type, factory |-> factory])
    /\ next_id_int' = [next_id_int EXCEPT ![factory] = @ + 1]
    /\ pre' = Game
    /\ UNCHANGED <<game_vars, fired, algorithm_vars, index_vars,
                   layout_vars>>

CreateVertex == \E factory \in Factories, type \in VertexType :
                    CreateVertexOf(factory, type)

NextFactory == CreateVertex

SpecFactory == InitFactory /\ [][NextFactory]_vars

\* ---------------------------------------------------------- GraphLayout
\* Coordinates are floats; the ones used here are the multiples of one
\* half, written as the number of halves.
Coordinates == 0 .. MaxCoordinate

\* The y coordinates handed to add_vertex: two rows, one half apart.
Rows == 0 .. 1

\* scale is not called when the width or the height would pass this, or a
\* coordinate would leave Coordinates and Rows.
MaxScaled == 2 * MaxCoordinate

\* The ratios handed to scale.
ScaleRatios == 0 .. 2

\* The vertices handed to the layout: the two endpoints of an edge.
LayoutVertices == {1, 2}

\* The fields of the GraphLayout.
Layout ==
    [vertex_coordinates_dict |-> vertex_coordinates_dict, width |-> width,
     height |-> height]

\* GraphLayout(width, height), as wide and high as the largest coordinate.
InitLayout ==
    /\ vertices = LayoutVertices
    /\ edges = {}
    /\ NoSnake
    /\ call = NoCall
    /\ NoIndex
    /\ NoFactory
    /\ vertex_coordinates_dict = <<>>
    /\ width = MaxCoordinate
    /\ height = MaxCoordinate
    /\ pre = Layout

\* add_vertex without the test of the coordinates.
add_vertex_unchecked(d, vertex, x, y) ==
    [result |-> "ok",
     dict |-> IF \E i \in DOMAIN d : d[i].vertex = vertex
              THEN [i \in DOMAIN d |->
                       IF d[i].vertex = vertex
                       THEN [vertex |-> vertex, x |-> x, y |-> y] ELSE d[i]]
              ELSE Append(d, [vertex |-> vertex, x |-> x, y |-> y])]

\* GraphLayout.add_vertex on the dict d, a list of its items in the order
\* of insertion: how it ends and the dict it leaves.
add_vertex(d, vertex, x, y) ==
    IF \E i \in DOMAIN d : d[i].x = x /\ d[i].y = y
    THEN [result |-> "ValueError", dict |-> d]
    ELSE [result |-> "ok",
          dict |-> IF \E i \in DOMAIN d : d[i].vertex = vertex
                   THEN [i \in DOMAIN d |->
                            IF d[i].vertex = vertex
                            THEN [vertex |-> vertex, x |-> x, y |-> y]
                            ELSE d[i]]
                   ELSE Append(d, [vertex |-> vertex, x |-> x, y |-> y])]

\* The loop of GraphLayout.scale over the items old, new being the dict
\* made so far; add_vertex may raise and leave new as it is.
RECURSIVE scale_items(_, _, _, _)
scale_items(old, new, width_ratio, height_ratio) ==
    IF old = <<>> THEN [result |-> "ok", dict |-> new]
    ELSE LET a == add_vertex(new, Head(old).vertex,
                             Head(old).x * width_ratio,
                             Head(old).y * height_ratio)
         IN IF a.result # "ok" THEN a
            ELSE scale_items(Tail(old), a.dict, width_ratio, height_ratio)

\* round() of the float of n halves: to the nearest integer, and to the
\* even one of the two when n is odd.
round(n) ==
    IF n % 2 = 0 THEN n \div 2
    ELSE IF ((n - 1) \div 2) % 2 = 0 THEN (n - 1) \div 2
    ELSE (n + 1) \div 2

\* The item of vertex in the dict d.
item_of(d, vertex) == d[CHOOSE i \in DOMAIN d : d[i].vertex = vertex]

\* GraphLayout.get_vertex_coordinates
get_vertex_coordinates(d, vertex) ==
    <<round(item_of(d, vertex).x), round(item_of(d, vertex).y)>>

\* GraphLayout.edge_to_unit_vector; Vector.__init__ raises ValueError for
\* the zero vector, and normalize() divides x and y by the size: the unit
\* vector is given by a vector of its direction.
edge_to_unit_vector(d, edge, origin) ==
    LET other == get_other(edge, origin)
        c1 == get_vertex_coordinates(d, origin)
        c2 == get_vertex_coordinates(d, other)
        x == c2[1] - c1[1]
        y == c2[2] - c1[2]
    IN IF x = 0 /\ y = 0
       THEN [result |-> "ValueError", returned |-> None]
       ELSE [result |-> "ok", returned |-> [x |-> x, y |-> y]]

\* A call on the layout: what it leaves.
LayoutCall(c, r, d, w, h, value) ==
    /\ call' = c
    /\ result' = r
    /\ vertex_coordinates_dict' = d
    /\ width' = w
    /\ height' = h
    /\ returned' = value
    /\ pre' = Layout
    /\ UNCHANGED <<game_vars, fired, algorithm_vars, index_vars,
                   factory_vars>>

\* GraphLayout.add_vertex(vertex, x, y)
AddVertex ==
    \E vertex \in LayoutVertices, x \in Coordinates, y \in Rows :
        LET a == add_vertex(vertex_coordinates_dict, vertex, x, y) IN
        LayoutCall([op |-> "add_vertex", edge |-> None, vertex |-> vertex,
                    x |-> x, y |-> y],
                   a.result, a.dict, width, height, None)

\* The body of GraphLayout.scale.
ScaleBy(op, width_ratio, height_ratio) ==
    LET sc == scale_items(vertex_coordinates_dict, <<>>, width_ratio,
                          height_ratio)
    IN
    /\ width * width_ratio <= MaxScaled
    /\ height * height_ratio <= MaxScaled
    /\ \A i \in DOMAIN vertex_coordinates_dict :
           /\ vertex_coordinates_dict[i].x * width_ratio \in Coordinates
           /\ vertex_coordinates_dict[i].y * height_ratio \in Rows
    /\ LayoutCall([op |-> op, edge |-> None], sc.result, sc.dict,
                  IF sc.result = "ok" THEN width * width_ratio ELSE width,
                  IF sc.result = "ok" THEN height * height_ratio
                  ELSE height,
                  None)

\* GraphLayout.scale(width_ratio, height_ratio)
Scale ==
    \E width_ratio \in ScaleRatios, height_ratio \in ScaleRatios :
        ScaleBy("scale", width_ratio, height_ratio)

\* GraphLayout.scale_to(width, height), called with multiples of the
\* width and the height of the layout; the division by a width or a
\* height of 0 raises ZeroDivisionError.
ScaleTo ==
    IF width = 0 \/ height = 0
    THEN LayoutCall([op |-> "scale_to", edge |-> None], "ZeroDivisionError",
                    vertex_coordinates_dict, width, height, None)
    ELSE \E width_ratio \in ScaleRatios, height_ratio \in ScaleRatios :
             ScaleBy("scale_to", width_ratio, height_ratio)

\* GraphLayout.edge_to_unit_vector(edge, origin) for an edge between two
\* vertices of the layout and an endpoint of it.
EdgeToUnitVector ==
    \E i, j \in DOMAIN vertex_coordinates_dict :
        /\ i # j
        /\ LET origin == vertex_coordinates_dict[i].vertex
               other == vertex_coordinates_dict[j].vertex
           IN \E edge \in {<<origin, other>>, <<other, origin>>} :
               LET u == edge_to_unit_vector(vertex_coordinates_dict, edge,
                                            origin)
               IN LayoutCall([op |-> "edge_to_unit_vector", edge |-> edge,
                              origin |-> origin],
                             u.result, vertex_coordinates_dict, width,
                             height, u.returned)

NextLayout ==
    \/ AddVertex
    \/ Scale
    \/ ScaleTo
    \/ EdgeToUnitVector

SpecLayout == InitLayout /\ [][NextLayout]_vars

\* --------------------------------------------------------------- Vector
\* Vector(x, y) for every x and y of which one is not 0; Vector.__init__
\* refuses the zero vector.
Vectors ==
    {v \in [x : 0 .. MaxVector, y : 0 .. MaxVector] : v.x # 0 \/ v.y # 0}

\* The orders in which the for loop may meet the members of a set of at
\* most MaxCandidates vectors.
VectorOrders ==
    UNION {{s \in [1 .. n -> Vectors] :
               \A i, j \in 1 .. n : i # j => s[i] # s[j]} :
           n \in 0 .. MaxCandidates}

\* Vector.get_distance, squared: math.sqrt keeps the order of the sums of
\* squares of small integers, and the difference of two different vectors
\* is not the zero vector.
get_distance(self, other) ==
    IF self = other THEN 0
    ELSE (self.x - other.x) * (self.x - other.x)
         + (self.y - other.y) * (self.y - other.y)

\* The loop of get_closest that takes every vector it meets.
RECURSIVE closest_in_last(_, _, _, _)
closest_in_last(self, vectors, closest, min_distance) ==
    IF vectors = <<>> THEN closest
    ELSE closest_in_last(self, Tail(vectors), Head(vectors),
                         get_distance(self, Head(vectors)))

\* The loop of Vector.get_closest over the vectors still to meet.
RECURSIVE closest_in(_, _, _, _)
closest_in(self, vectors, closest, min_distance) ==
    IF vectors = <<>> THEN closest
    ELSE LET other == Head(vectors)
             distance == get_distance(self, other)
         IN IF closest = None \/ distance < min_distance
            THEN closest_in(self, Tail(vectors), other, distance)
            ELSE closest_in(self, Tail(vectors), closest, min_distance)

\* Vector.get_closest on the set whose iteration gives vectors.
get_closest(self, vectors) ==
    IF Len(vectors) = 0
    THEN [result |-> "ValueError", returned |-> None]
    ELSE [result |-> "ok", returned |-> closest_in(self, vectors, None, 0)]

\* A vector and a set of vectors, in the order the set is iterated in.
InitVector ==
    \E self \in Vectors, vectors \in VectorOrders :
        /\ vertices = {}
        /\ edges = {}
        /\ NoSnake
        /\ call = [op |-> "init", edge |-> None, self |-> self,
                   vectors |-> vectors]
        /\ NoIndex
        /\ NoFactory
        /\ NoLayout
        /\ pre = Game

\* self.get_closest(vectors)
GetClosest ==
    /\ call.op = "init"
    /\ call' = [call EXCEPT !.op = "get_closest"]
    /\ result' = get_closest(call.self, call.vectors).result
    /\ returned' = get_closest(call.self, call.vectors).returned
    /\ pre' = Game
    /\ UNCHANGED <<game_vars, fired, algorithm_vars, index_vars,
                   factory_vars, layout_vars>>

NextVector == GetClosest

SpecVector == InitVector /\ [][NextVector]_vars

\* ------------------------------------------------- a board with walls
\* The typings of the vertices of the board: EMPTY, the last one EMPTY or
\* WALL.
WallTypings ==
    {[v \in BoardVertices |-> IF v = 2 * GridWidth THEN ty ELSE "EMPTY"] :
        ty \in {"EMPTY", "WALL"}}

\* The typings of the edges the Edge constructor allows: EMPTY, and at
\* most one edge WALL.
WallEdgeTypings ==
    {[e \in BoardEdges |-> "EMPTY"]}
    \cup {[e \in BoardEdges |-> IF e = wall THEN "WALL" ELSE "EMPTY"] :
            wall \in BoardEdges}

\* GameGraph.__init__(vertices, edges, snake_vertices) with the indexes
\* Graph.__init__ builds.
InitWalls ==
    \E vt \in WallTypings, et \in WallEdgeTypings, sv \in SnakeVertices :
        LET b == from_vertices_body(BoardEdges, sv)
            u == update_types(sv[1], b, sv[Len(sv)], None, vt, et)
        IN /\ vertices = BoardVertices
           /\ edges = BoardEdges
           /\ head = sv[1]
           /\ body = b
           /\ tail = sv[Len(sv)]
           /\ left_edge = None
           /\ vtype = u.vtype
           /\ etype = u.etype
           /\ apples = {}
           /\ call = NoCall
           /\ result = "ok"
           /\ fired = 0
           /\ scores = NewScores(0)
           /\ apple_callback = 0
           /\ move_callback = 0
           /\ move_calls = 0
           /\ pre = Game
           /\ dead = FALSE
           /\ returned = None
           /\ next_edges_seen = NotSeen
           /\ NoAlgorithm
           /\ edge_dict =
                  [first \in BoardVertices |->
                      [second \in {v \in BoardVertices :
                                     get_edge(BoardEdges, first, v) # None}
                       |-> get_edge(BoardEdges, first, second)]]
           /\ incidence_dict =
                  [vertex \in BoardVertices |->
                      get_incident_edges(BoardEdges, vertex)]
           /\ NoFactory
           /\ NoLayout

NextWalls ==
    \/ \E edge \in edges : MoveSnake(edge)
    \/ GenerateApple
    \/ GenerateAppleIfMissing

SpecWalls == InitWalls /\ [][NextWalls]_vars

\* ------------------------------------------------- the loop of main.py
\* The graph and the Score of src/snake/main.py, before the first
\* generate_apple_if_missing.
InitDriver == InitAlgorithm

\* graph.generate_apple_if_missing(), before the loop and at the end of
\* every round of it; an exception ends the program.
DriverGenerateAppleIfMissing ==
    /\ result = "ok"
    /\ call.op \in {"init", "move_snake"}
    /\ GenerateAppleIfMissing

\* controller.move_snake(): GUIController._move_snake and the algorithms
\* move the snake along one of get_snakes_next_edges().
DriverMoveSnake ==
    /\ result = "ok"
    /\ call.op = "generate_apple_if_missing"
    /\ \E edge \in get_snakes_next_edges(edges, Game) : MoveSnake(edge)

NextDriver ==
    \/ DriverGenerateAppleIfMissing
    \/ DriverMoveSnake

SpecDriver == InitDriver /\ [][NextDriver]_vars

\* ------------------------------------------------------------- properties
\* The endpoint of edge that is not vertex, when vertex is an endpoint.
Incident(edge, vertex) == vertex \in {edge[1], edge[2]}

Opposite(edge, vertex) == IF edge[1] = vertex THEN edge[2] ELSE edge[1]

\* b can be walked from h: every edge of b is incident with the vertex
\* reached before it.
RECURSIVE Walkable(_, _)
Walkable(h, b) ==
    \/ b = <<>>
    \/ Incident(Head(b), h) /\ Walkable(Opposite(Head(b), h), Tail(b))

\* The Len(b) + 1 vertices met when b is walked from h.
RECURSIVE WalkOf(_, _)
WalkOf(h, b) ==
    IF b = <<>> THEN <<h>>
    ELSE <<h>> \o WalkOf(Opposite(Head(b), h), Tail(b))

\* b is a simple path from h to t.
IsPath(h, b, t) ==
    /\ Walkable(h, b)
    /\ LET w == WalkOf(h, b) IN
       /\ \A i, j \in DOMAIN w : i # j => w[i] # w[j]
       /\ w[Len(w)] = t

\* The last call was move_snake with an edge incident with the head.
MovedAlongIncidentEdge ==
    call.op = "move_snake" /\ Incident(call.edge, pre.head)

\* The vertex that call was to move the head to.
NextVertex == Opposite(call.edge, pre.head)

\* head, body, tail, the types and the apples are as before the last call.
Untouched ==
    /\ head = pre.head
    /\ body = pre.body
    /\ tail = pre.tail
    /\ vtype = pre.vtype
    /\ etype = pre.etype
    /\ apples = pre.apples

BecameEmptyVertices ==
    {v \in vertices : vtype[v] = "EMPTY" /\ pre.vtype[v] # "EMPTY"}

BecameEmptyEdges ==
    {e \in edges : etype[e] = "EMPTY" /\ pre.etype[e] # "EMPTY"}

\* C1: after calls of move_snake that returned normally, interleaved with
\* generate_apple and generate_apple_if_missing, the body has at least one
\* edge and is a simple path from head to tail, and verify() is true.
C1_PathInvariant ==
    result = "ok" =>
        /\ Len(body) >= 1
        /\ IsPath(head, body, tail)
        /\ verify(head, body, tail)

\* A snake of three vertices that has slid.
C1_Witness ==
    /\ call.op = "move_snake"
    /\ result = "ok"
    /\ left_edge # None
    /\ Len(body) = 2
    /\ IsPath(head, body, tail)

\* C2: move along an edge incident with the head whose other endpoint is
\* WALL or SNAKE raises and changes neither head, body, tail, a type nor
\* the apples.
C2_Collision ==
    (MovedAlongIncidentEdge /\ pre.vtype[NextVertex] \in {"WALL", "SNAKE"})
        => (result = "Exception" /\ Untouched)

\* The snake has run into a vertex of its own that is not its neck.
C2_Witness ==
    /\ MovedAlongIncidentEdge
    /\ pre.vtype[NextVertex] = "SNAKE"
    /\ call.edge \notin Range(pre.body)
    /\ result = "Exception"

\* The snake has run into a wall.
C2_WitnessWall ==
    /\ MovedAlongIncidentEdge
    /\ pre.vtype[NextVertex] = "WALL"
    /\ result = "Exception"

\* C3: move along an edge incident with the head whose other endpoint is
\* not WALL, SNAKE or APPLE slides the snake: the head is that endpoint, the
\* body is the edge followed by the old body without its last edge, the
\* tail is the other endpoint of the old last edge, the snake's vertices and
\* edges are SNAKE, and exactly the old tail and the old last edge have
\* become EMPTY.
C3_Slide ==
    (MovedAlongIncidentEdge
        /\ pre.vtype[NextVertex] \notin {"WALL", "SNAKE", "APPLE"})
    => /\ result = "ok"
       /\ head = NextVertex
       /\ body = <<call.edge>> \o SubSeq(pre.body, 1, Len(pre.body) - 1)
       /\ Len(body) = Len(pre.body)
       /\ tail = Opposite(pre.body[Len(pre.body)], pre.tail)
       /\ IsPath(head, body, tail)
       /\ \A v \in Range(WalkOf(head, body)) : vtype[v] = "SNAKE"
       /\ \A i \in DOMAIN body : etype[body[i]] = "SNAKE"
       /\ BecameEmptyVertices = {pre.tail}
       /\ BecameEmptyEdges = {pre.body[Len(pre.body)]}

\* A snake of three vertices has slid onto an EMPTY vertex.
C3_Witness ==
    /\ MovedAlongIncidentEdge
    /\ pre.vtype[NextVertex] = "EMPTY"
    /\ Len(pre.body) = 2
    /\ head = NextVertex
    /\ vtype[pre.tail] = "EMPTY"

\* A snake has slid onto a vertex of type NONE.
C3_WitnessNone ==
    /\ MovedAlongIncidentEdge
    /\ pre.vtype[NextVertex] = "NONE"
    /\ head = NextVertex

\* C4: move_snake along an edge incident with the head whose other endpoint
\* is APPLE and in apples, with an observer that returns, grows the snake:
\* the head is that endpoint, the body is the edge followed by the old
\* body, the tail is the old tail, the endpoint has left apples and is
\* SNAKE, the observer was invoked exactly once, and nothing became EMPTY.
C4_Grow ==
    (MovedAlongIncidentEdge
        /\ pre.vtype[NextVertex] = "APPLE"
        /\ NextVertex \in pre.apples
        /\ result # "ObserverError")
    => /\ result = "ok"
       /\ head = NextVertex
       /\ body = <<call.edge>> \o pre.body
       /\ Len(body) = Len(pre.body) + 1
       /\ tail = pre.tail
       /\ NextVertex \notin apples
       /\ apples = pre.apples \ {NextVertex}
       /\ vtype[NextVertex] = "SNAKE"
       /\ fired = 1
       /\ BecameEmptyVertices = {}
       /\ BecameEmptyEdges = {}

\* The snake has eaten one of two apples.
C4_Witness ==
    /\ MovedAlongIncidentEdge
    /\ pre.vtype[NextVertex] = "APPLE"
    /\ NextVertex \in pre.apples
    /\ result = "ok"
    /\ Cardinality(pre.apples) = 2
    /\ Len(body) = Len(pre.body) + 1

\* C5: whatever the outcome of move_snake, the state it leaves is the
\* complete state after the move or exactly the state before it: a call
\* that raises leaves the state of before the call.
C5_AtomicMove ==
    (call.op = "move_snake" /\ result # "ok") => Untouched

\* C6: apples is exactly the set of the vertices of type APPLE, however the
\* vertices were typed at construction.
C6_ApplesExact ==
    apples = {v \in vertices : vtype[v] = "APPLE"}

\* C7: once a move has ended in a collision, no later call of move_snake
\* changes head, body, tail, a type or the apples.
C7_DeadIsTerminal ==
    [][(dead /\ call'.op = "move_snake")
          => UNCHANGED <<head, body, tail, vtype, etype, apples>>]_vars

\* C8: move_snake with an edge that is not incident with the head raises
\* and changes neither head, body, tail, a type nor the apples.
C8_InvalidMove ==
    (call.op = "move_snake" /\ ~Incident(call.edge, pre.head))
        => (result = "ValueError" /\ Untouched)

\* An edge far from the head of a snake that has already moved was tried.
C8_Witness ==
    /\ call.op = "move_snake"
    /\ ~Incident(call.edge, pre.head)
    /\ result = "ValueError"
    /\ pre.left_edge # None

\* C9: Snake(head, body, tail) with an empty body raises ValueError, for
\* head = tail as for head # tail.
C9_EmptyBodyRaises ==
    (call.op = "Snake" /\ body = <<>>) => result = "ValueError"

\* C10: Snake(head, body, tail) with a non-empty body raises ValueError
\* whenever body walked from head is not a simple path that ends at tail.
C10_BadBodyRaises ==
    (call.op = "Snake" /\ body # <<>>
        /\ ~IsPath(head, body, tail))
    => result = "ValueError"

\* A cycle of three edges back to head = tail was rejected.
C10_Witness ==
    /\ call.op = "Snake"
    /\ result = "ValueError"
    /\ Len(body) = 3
    /\ head = tail
    /\ Walkable(head, body)
    /\ WalkOf(head, body)[4] = head
    /\ Cardinality(Range(WalkOf(head, body))) = 3

\* A body with a looped edge was rejected.
C10_WitnessLoop ==
    /\ call.op = "Snake"
    /\ result = "ValueError"
    /\ \E i \in DOMAIN body : body[i][1] = body[i][2]
    /\ Walkable(head, body)

\* A body whose walk passes the tail and ends elsewhere was rejected.
C10_WitnessTailInMiddle ==
    /\ call.op = "Snake"
    /\ result = "ValueError"
    /\ Walkable(head, body)
    /\ Cardinality(Range(WalkOf(head, body))) = Len(body) + 1
    /\ \E i \in 2 .. Len(body) : WalkOf(head, body)[i] = tail

\* C11: Snake(head, body, tail) succeeds whenever body is a simple path of
\* two or more vertices from head to tail, and then every vertex of the
\* path and every edge of body has the type SNAKE.
C11_PathSnakeConstructed ==
    (call.op = "Snake" /\ body # <<>> /\ IsPath(head, body, tail))
    => /\ result = "ok"
       /\ \A v \in Range(WalkOf(head, body)) : vtype[v] = "SNAKE"
       /\ \A i \in DOMAIN body : etype[body[i]] = "SNAKE"

\* A snake of three vertices was constructed.
C11_Witness ==
    /\ call.op = "Snake"
    /\ result = "ok"
    /\ Len(body) = 2
    /\ IsPath(head, body, tail)
    /\ vtype[tail] = "SNAKE"

\* Two vertices of vs are the same.
Repeats(vs) == \E i, j \in DOMAIN vs : i # j /\ vs[i] = vs[j]

\* Some vertex of vs and the one after it are joined by no edge of E.
LacksEdge(E, vs) ==
    \E i \in 1 .. (Len(vs) - 1) :
        ~\E e \in E : {e[1], e[2]} = {vs[i], vs[i + 1]}

\* C12: from_vertices(graph, vs) fails with the error of a refused
\* construction (ValueError) when vs has fewer than two vertices, repeats
\* a vertex, or has two consecutive vertices no edge joins; otherwise it
\* gives the snake with head vs[0], tail vs[-1] and as body the edges of
\* the graph between consecutive vertices.
C12_FromVertices ==
    call.op = "from_vertices" =>
        LET vs == call.snake_vertices IN
        IF Len(vs) < 2 \/ Repeats(vs) \/ LacksEdge(edges, vs)
        THEN result = "ValueError"
        ELSE /\ result = "ok"
             /\ head = vs[1]
             /\ tail = vs[Len(vs)]
             /\ Len(body) = Len(vs) - 1
             /\ \A i \in DOMAIN body :
                    /\ body[i] \in edges
                    /\ {body[i][1], body[i][2]} = {vs[i], vs[i + 1]}

\* C13: for a valid snake get_segments() returns len(body) + 1 pairwise
\* distinct vertices, the first head and the last tail, and changes no
\* state.
C13_GetSegments ==
    (call.op = "get_segments" /\ verify(head, body, tail))
    => /\ result = "ok"
       /\ Len(returned) = Len(body) + 1
       /\ \A i, j \in DOMAIN returned : i # j => returned[i] # returned[j]
       /\ returned[1] = head
       /\ returned[Len(returned)] = tail
       /\ Game = pre

\* get_segments() was asked of a snake of three vertices that had moved.
C13_Witness ==
    /\ call.op = "get_segments"
    /\ verify(head, body, tail)
    /\ Len(body) = 2
    /\ Len(returned) = 3
    /\ left_edge # None

\* C14: get_snakes_next_edges() returns exactly the edges incident with
\* the head whose type is not SNAKE, and none of them is an edge of body.
C14_NextEdges ==
    call.op = "get_snakes_next_edges"
    => /\ result = "ok"
       /\ returned =
              {e \in edges : Incident(e, head) /\ etype[e] # "SNAKE"}
       /\ returned \cap Range(body) = {}

\* get_snakes_next_edges() was asked and left out the edge behind the head.
C14_Witness ==
    /\ call.op = "get_snakes_next_edges"
    /\ returned # {}
    /\ Incident(body[1], head)
    /\ body[1] \notin returned

\* C15: get_snakes_next_edges() changes no field of the snake, no type
\* and no apple, and returns what it returned before when move_snake was
\* not called in between.
C15_NextEdgesPure ==
    call.op = "get_snakes_next_edges"
    => /\ Game = pre
       /\ next_edges_seen.called
       /\ returned = next_edges_seen.edges

\* get_snakes_next_edges() was asked, an apple was placed next to the head,
\* and it was asked again.
C15_Witness ==
    /\ call.op = "get_snakes_next_edges"
    /\ next_edges_seen.again
    /\ \E e \in returned : vtype[Opposite(e, head)] = "APPLE"

\* The last call left the snake, the edge types and the Score objects alone.
OnlyApplesTouched ==
    /\ head = pre.head
    /\ body = pre.body
    /\ tail = pre.tail
    /\ left_edge = pre.left_edge
    /\ etype = pre.etype
    /\ scores = pre.scores

\* The last call made an apple of exactly one vertex that had type EMPTY.
PlacedOneApple ==
    /\ result = "ok"
    /\ \E v \in vertices :
           /\ pre.vtype[v] = "EMPTY"
           /\ vtype = [pre.vtype EXCEPT ![v] = "APPLE"]
           /\ apples = pre.apples \cup {v}
    /\ OnlyApplesTouched

\* A vertex had type EMPTY when the last call was made.
HadEmptyVertex == \E v \in vertices : pre.vtype[v] = "EMPTY"

\* C16: generate_apple(), when a vertex has type EMPTY, changes exactly one
\* vertex: one of type EMPTY becomes APPLE and is added to apples (so the
\* only one of type EMPTY is the one chosen).
C16_GenerateApple ==
    (call.op = "generate_apple" /\ HadEmptyVertex) => PlacedOneApple

\* generate_apple() was called with exactly one vertex of type EMPTY.
C16_Witness ==
    /\ call.op = "generate_apple"
    /\ Cardinality({v \in vertices : pre.vtype[v] = "EMPTY"}) = 1
    /\ \E v \in vertices : pre.vtype[v] \in {"NONE", "WALL"}
    /\ apples # pre.apples

\* C17: generate_apple() with no vertex of type EMPTY fails and leaves the
\* types and the apples unchanged.
C17_NoEmptyVertex ==
    (call.op = "generate_apple" /\ ~HadEmptyVertex)
    => /\ result # "ok"
       /\ vtype = pre.vtype
       /\ apples = pre.apples
       /\ Game = pre

\* generate_apple() was called on a board without a vertex of type EMPTY.
C17_Witness ==
    /\ call.op = "generate_apple"
    /\ ~HadEmptyVertex
    /\ result = "ValueError"

\* C18: generate_apple_if_missing() leaves the game unchanged when there is
\* an apple, and does what generate_apple() does when there is none.
C18_IfMissing ==
    call.op = "generate_apple_if_missing"
    => IF pre.apples # {} THEN result = "ok" /\ Game = pre
       ELSE IF HadEmptyVertex THEN PlacedOneApple
       ELSE result = "ValueError" /\ Game = pre

\* generate_apple_if_missing() was called with an apple and a vertex of
\* type EMPTY on the board.
C18_Witness ==
    /\ call.op = "generate_apple_if_missing"
    /\ pre.apples # {}
    /\ HadEmptyVertex

\* generate_apple_if_missing() placed the apple that was missing.
C18_WitnessMissing ==
    /\ call.op = "generate_apple_if_missing"
    /\ pre.apples = {}
    /\ apples # {}

\* C19: with a Score attached, after k calls of move_snake get_moves() of
\* that Score is k.
C19_MovesCounted ==
    scores # <<>> => scores[move_callback].moves = move_calls

\* C20: when two Score objects registered for the apple-eaten event, each
\* of them is invoked once for an apple eaten.
C20_AllObserversInvoked ==
    (call.op = "move_snake" /\ fired = 1 /\ result = "ok")
    => \A i \in DOMAIN scores : scores[i].score = pre.scores[i].score + 1

\* The edges get_snakes_next_edges() gave before the last call.
NextEdgesBefore ==
    {e \in edges : Incident(e, pre.head) /\ pre.etype[e] # "SNAKE"}

\* C21: choose_next_edge() called when there is no apple does not raise and
\* returns a member of get_snakes_next_edges().
C21_NoAppleFallsBack ==
    (call.op = "choose_next_edge" /\ pre.apples = {})
    => result = "ok" /\ returned \in NextEdgesBefore

\* The vertices that were neither WALL nor SNAKE before the last call, and
\* the head.
OpenBefore ==
    {v \in vertices : pre.vtype[v] \notin {"WALL", "SNAKE"}} \cup {pre.head}

Adjacent(u, v) == \E e \in edges : {e[1], e[2]} = {u, v}

\* The vertices of A at most n hops from the head of before the last call,
\* going through vertices of A only.
RECURSIVE Within(_, _)
Within(A, n) ==
    IF n = 0 THEN {pre.head}
    ELSE LET B == Within(A, n - 1)
         IN B \cup {v \in A : \E u \in B : Adjacent(u, v)}

\* Some path of open vertices led from the head to the target the last
\* _find_shortest_path chose.
PathExisted == plan.target \in Within(OpenBefore, Cardinality(OpenBefore))

\* C22: choose_next_edge() called where no path leads from the head to the
\* apple returns a member of get_snakes_next_edges() and does not raise.
C22_NoPathFallsBack ==
    (/\ call.op = "choose_next_edge"
     /\ plan.searched
     /\ pre.apples # {}
     /\ ~PathExisted)
    => result = "ok" /\ returned \in NextEdgesBefore

\* C23 as stated: when _find_shortest_path finds the apple d hops from the
\* head, every call of the d rounds of choose_next_edge(),
\* move_snake(edge) and generate_apple_if_missing() that follow succeeds.
C23_AllRoundsSucceed == plan.found # <<>> => result = "ok"

\* C23 amended: when _find_shortest_path finds the apple d hops from the
\* head, the choose_next_edge() and move_snake(edge) of the d rounds that
\* follow all succeed, the apple is eaten by the d-th move and by none
\* before, and the body is one edge longer after it; the
\* generate_apple_if_missing() of a round fails only after the d-th move,
\* when no vertex of type EMPTY is left for the next apple.
C23_AppleEatenOnLastHop ==
    plan.found # <<>> =>
        LET d == Len(plan.found) IN
        /\ call.op \in {"choose_next_edge", "move_snake"} => result = "ok"
        /\ result # "ok"
           => /\ plan.moved = d
              /\ \A v \in vertices : vtype[v] # "EMPTY"
        /\ plan.moved <= d
        /\ (call.op = "choose_next_edge" /\ plan.searched)
           => /\ plan.target \in Within(OpenBefore, d)
              /\ plan.target \notin Within(OpenBefore, d - 1)
        /\ call.op = "choose_next_edge"
           => returned \in edges /\ Incident(returned, head)
        /\ call.op = "move_snake"
           => IF plan.moved < d
              THEN /\ fired = 0
                   /\ plan.target \in apples
                   /\ Len(body) = plan.body_len
              ELSE /\ fired = 1
                   /\ head = plan.target
                   /\ plan.target \notin apples
                   /\ Len(body) = plan.body_len + 1

\* The apple was two hops away and the second move has eaten it.
C23_Witness ==
    /\ call.op = "move_snake"
    /\ Len(plan.found) = 2
    /\ plan.moved = 2
    /\ head = plan.target
    /\ fired = 1

\* C24: the path _find_shortest_path caches is, when a path exists, a path
\* of the fewest hops from the head to the chosen apple through vertices
\* that are neither WALL nor SNAKE: it leaves out the head, ends at the
\* apple, and its consecutive vertices are adjacent; it is empty exactly
\* when no path exists.
C24_ShortestPath ==
    (call.op = "choose_next_edge" /\ plan.searched /\ pre.apples # {})
    => LET f == plan.found IN
       /\ plan.target \in pre.apples
       /\ IF PathExisted
          THEN /\ f # <<>>
               /\ pre.head \notin Range(f)
               /\ f[Len(f)] = plan.target
               /\ Adjacent(pre.head, f[1])
               /\ \A i \in 1 .. (Len(f) - 1) : Adjacent(f[i], f[i + 1])
               /\ \A v \in Range(f) : pre.vtype[v] \notin {"WALL", "SNAKE"}
               /\ plan.target \notin Within(OpenBefore, Len(f) - 1)
          ELSE f = <<>>

\* A path of three hops was cached.
C24_Witness ==
    /\ call.op = "choose_next_edge"
    /\ plan.searched
    /\ Len(plan.found) = 3
    /\ path = Tail(plan.found)

\* No path existed and none was cached.
C24_WitnessNoPath ==
    /\ call.op = "choose_next_edge"
    /\ plan.searched
    /\ pre.apples # {}
    /\ ~PathExisted
    /\ path = <<>>

\* An edge of the graph has an endpoint outside vertices or is a loop.
BadEdge ==
    \E e \in edges :
        e.first \notin vertices \/ e.second \notin vertices
        \/ e.first = e.second

\* C25: Graph(vertices, edges) fails, before an index is built, if and only
\* if some edge has an endpoint that is not in vertices or is a loop; a
\* constructed graph has neither.
C25_GraphVerified ==
    call.op = "Graph"
    => /\ result # "ok" <=> BadEdge
       /\ result # "ok" => edge_dict = <<>> /\ incidence_dict = <<>>
       /\ result = "ok"
          => /\ DOMAIN edge_dict = vertices
             /\ DOMAIN incidence_dict = vertices
             /\ \A e \in edges :
                    /\ e.first \in vertices
                    /\ e.second \in vertices
                    /\ e.first # e.second

\* A graph whose only fault is a looped edge was refused.
C25_Witness ==
    /\ call.op = "Graph"
    /\ result = "ValueError"
    /\ edges # {}
    /\ \A e \in edges : e.first \in vertices /\ e.second \in vertices
    /\ edge_dict = <<>>

\* A graph with two edges was constructed.
C25_WitnessBuilt ==
    /\ call.op = "Graph"
    /\ result = "ok"
    /\ Cardinality(edges) = 2

\* The edges of the graph that lead from a to b: the undirected ones with
\* these endpoints and the directed ones from a to b.
Joining(a, b) ==
    {e \in edges :
        \/ e.first = a /\ e.second = b
        \/ ~e.directed /\ e.first = b /\ e.second = a}

C26_WitnessNone ==
    /\ call.op = "get_edge"
    /\ returned = None
    /\ Joining(call.second, call.first) # {}

\* C27: two undirected edges are equal iff they have the same endpoints,
\* and then their hashes are equal; two directed edges are equal iff first
\* and second match in order; a directed and an undirected edge are never
\* equal; the types play no part.
C27_EdgeEquality ==
    call.op = "Edge.__eq__" =>
        LET e == call.self
            f == call.other
        IN
        /\ (~e.directed /\ ~f.directed)
           => /\ returned.eq <=> {e.first, e.second} = {f.first, f.second}
              /\ returned.eq => returned.self_hash = returned.other_hash
        /\ (e.directed /\ f.directed)
           => /\ returned.eq <=> (e.first = f.first /\ e.second = f.second)
              /\ returned.eq => returned.self_hash = returned.other_hash
        /\ e.directed # f.directed => ~returned.eq

\* Edge(a, b) and Edge(b, a) of different types were found equal.
C27_Witness ==
    /\ call.op = "Edge.__eq__"
    /\ ~call.self.directed
    /\ ~call.other.directed
    /\ call.self.first # call.self.second
    /\ call.self.first = call.other.second
    /\ call.self.second = call.other.first
    /\ call.self_type # call.other_type
    /\ returned.eq

\* C28: any two vertices obtained from create_vertex, on the same factory
\* or on different ones, have different ids.
C28_UniqueIds ==
    \A i, j \in DOMAIN created : i # j => created[i].id # created[j].id

\* C29: add_vertex(v, x, y) raises when (x, y) is bound to another vertex,
\* and after any calls of add_vertex, scale and scale_to no two vertices of
\* the layout have the same stored coordinates.
C29_Injective ==
    /\ \A i, j \in DOMAIN vertex_coordinates_dict :
           i # j => /\ vertex_coordinates_dict[i].vertex
                       # vertex_coordinates_dict[j].vertex
                    /\ <<vertex_coordinates_dict[i].x,
                         vertex_coordinates_dict[i].y>>
                       # <<vertex_coordinates_dict[j].x,
                           vertex_coordinates_dict[j].y>>
    /\ (/\ call.op = "add_vertex"
        /\ \E i \in DOMAIN pre.vertex_coordinates_dict :
               /\ pre.vertex_coordinates_dict[i].vertex # call.vertex
               /\ pre.vertex_coordinates_dict[i].x = call.x
               /\ pre.vertex_coordinates_dict[i].y = call.y)
       => /\ result = "ValueError"
          /\ vertex_coordinates_dict = pre.vertex_coordinates_dict

\* add_vertex refused the coordinates of another vertex.
C29_Witness ==
    /\ call.op = "add_vertex"
    /\ result = "ValueError"
    /\ \E i \in DOMAIN vertex_coordinates_dict :
           /\ vertex_coordinates_dict[i].vertex # call.vertex
           /\ vertex_coordinates_dict[i].x = call.x
           /\ vertex_coordinates_dict[i].y = call.y

\* scale brought two vertices to the same coordinates and raised.
C29_WitnessScale ==
    /\ call.op = "scale"
    /\ result = "ValueError"
    /\ Len(pre.vertex_coordinates_dict) = 2
    /\ Len(vertex_coordinates_dict) = 1

\* The stored coordinates of a vertex, in halves.
Stored(vertex) ==
    LET i == CHOOSE k \in DOMAIN vertex_coordinates_dict :
                 vertex_coordinates_dict[k].vertex = vertex
    IN <<vertex_coordinates_dict[i].x, vertex_coordinates_dict[i].y>>

\* C30: for an edge of a layout with pairwise different coordinates and an
\* endpoint origin of it, edge_to_unit_vector(edge, origin) succeeds and
\* returns the unit vector that points from the stored coordinates of
\* origin to those of the other endpoint.
C30_UnitVector ==
    call.op = "edge_to_unit_vector" =>
        LET from == Stored(call.origin)
            to == Stored(Opposite(call.edge, call.origin))
            x == to[1] - from[1]
            y == to[2] - from[2]
        IN
        /\ result = "ok"
        /\ returned.x * y = returned.y * x
        /\ returned.x * x + returned.y * y > 0

\* The square of the Euclidean distance of two vectors.
SquaredDistance(u, v) == (u.x - v.x) * (u.x - v.x) + (u.y - v.y) * (u.y - v.y)

\* C31: get_closest on a set that is not empty returns a member of the set
\* than which no member is nearer to the vector, the vector itself when it
\* is a member; on the empty set it raises.
C31_Closest ==
    call.op = "get_closest" =>
        /\ result = "ValueError" <=> call.vectors = <<>>
        /\ result = "ok" <=> call.vectors # <<>>
        /\ result = "ok" =>
               /\ returned \in Range(call.vectors)
               /\ \A v \in Range(call.vectors) :
                      SquaredDistance(call.self, returned)
                      <= SquaredDistance(call.self, v)
               /\ call.self \in Range(call.vectors) => returned = call.self

\* The nearest of two vectors was the one met second.
C31_Witness ==
    /\ call.op = "get_closest"
    /\ result = "ok"
    /\ Len(call.vectors) = 2
    /\ returned = call.vectors[2]

\* get_closest raised on the empty set.
C31_WitnessEmpty ==
    /\ call.op = "get_closest"
    /\ result = "ValueError"

\* The orders a set of vectors can be iterated in.
OrdersOf(S) ==
    {s \in [1 .. Cardinality(S) -> S] : Range(s) = S}

\* C32: get_closest returns the same vector whatever the order the set is
\* iterated in, also when several members are nearest.
C32_Deterministic ==
    (call.op = "get_closest" /\ result = "ok") =>
        \A vectors \in OrdersOf(Range(call.vectors)) :
            get_closest(call.self, vectors).returned = returned

\* The game as the apple-eaten observer found it during the last call.
SeenByObserver == move(pre, call.edge, result = "ObserverError").seen

\* C33: when move_snake grows the snake, the observer is invoked after the
\* edge was prepended to body: the head the observer reads is an endpoint
\* of the first body edge, and head, body and tail form a path.
C33_ObserverSeesPath ==
    (call.op = "move_snake" /\ fired = 1) =>
        /\ SeenByObserver.body = <<call.edge>> \o pre.body
        /\ Incident(SeenByObserver.body[1], SeenByObserver.head)
        /\ IsPath(SeenByObserver.head, SeenByObserver.body,
                  SeenByObserver.tail)

\* The vertices of type SNAKE are those of get_segments(), the edges of
\* type SNAKE those of body.
SnakeTypesAgree ==
    /\ {v \in vertices : vtype[v] = "SNAKE"}
       = Range(get_segments(head, body, tail))
    /\ {e \in edges : etype[e] = "SNAKE"} = Range(body)

\* C34: in a game constructed with no vertex or edge of type SNAKE off the
\* snake (the vertices and edges of the board with walls are constructed
\* EMPTY or WALL), after move_snake and generate_apple calls that all
\* returned normally the vertices of type SNAKE are the vertices of
\* get_segments() and the edges of type SNAKE are the edges of body.
C34_TypesTellOccupancy ==
    result = "ok" => SnakeTypesAgree

\* The snake has slid twice and has grown, and the types agree with it.
C34_Witness ==
    /\ call.op = "move_snake"
    /\ result = "ok"
    /\ left_edge # None
    /\ Len(body) = 2
    /\ \E v \in vertices : vtype[v] = "EMPTY" /\ v # head /\ v # tail
                           /\ \E e \in edges : Incident(e, v)
                                               /\ etype[e] = "EMPTY"
    /\ SnakeTypesAgree

\* C35: no move_snake call makes the body shorter, every call makes it
\* longer by the number of apples it ate, 0 or 1, and with a single Score
\* attached, whose score starts at 0, the length of the body less the score
\* never changes: it is the length at construction.
C35_GrowthAccounting ==
    /\ \A i \in DOMAIN scores : scores[i].score = 0
    /\ [][/\ Len(body') >= Len(body)
          /\ call'.op = "move_snake" => Len(body') = Len(body) + fired'
          /\ call'.op # "move_snake" => Len(body') = Len(body)
          /\ Len(scores) = 1
             => Len(body') - scores'[1].score = Len(body) - scores[1].score
         ]_vars

\* With one Score attached the snake has grown by the apple it ate.
C35_Witness ==
    /\ call.op = "move_snake"
    /\ result = "ok"
    /\ Len(scores) = 1
    /\ scores[1].score = 1
    /\ fired = 1
    /\ Len(body) = Len(pre.body) + 1

\* The vertices of WALL type stay WALL, the snake is on none of them, and
\* the vertices, the edges and the indexes stay as they are.
WallVerticesFrozen ==
    /\ \A v \in vertices : vtype[v] = "WALL" => vtype'[v] = "WALL"
    /\ \A v \in {head', tail'} \cup {e[1] : e \in Range(body')}
                \cup {e[2] : e \in Range(body')} :
           vtype'[v] # "WALL"
    /\ vertices' = vertices
    /\ edges' = edges
    /\ edge_dict' = edge_dict
    /\ incidence_dict' = incidence_dict

\* C36 as stated: no call changes the type of a vertex or of an edge of
\* type WALL, the snake is never on a WALL vertex, and the vertices, the
\* edges and the indexes are never changed.
C36_WallsFrozen ==
    [][/\ WallVerticesFrozen
       /\ \A e \in edges : etype[e] = "WALL" => etype'[e] = "WALL"]_vars

\* C36, amended: as stated for the vertices, the edges and the indexes; an
\* edge of type WALL keeps its type when one of its endpoints is of type
\* WALL.
C36_WallsFrozenBehindWalls ==
    [][/\ WallVerticesFrozen
       /\ \A e \in edges :
              (etype[e] = "WALL"
               /\ (vtype[e[1]] = "WALL" \/ vtype[e[2]] = "WALL"))
              => etype'[e] = "WALL"]_vars

\* The snake ran along a WALL edge into a WALL vertex, after an apple was
\* placed, and both are as they were constructed.
C36_Witness ==
    /\ call.op = "move_snake"
    /\ result = "Exception"
    /\ apples # {}
    /\ etype[call.edge] = "WALL"
    /\ Incident(call.edge, head)
    /\ vtype[Opposite(call.edge, head)] = "WALL"

\* The snake has slid past an edge of type WALL that it can not take.
C36_WitnessSlid ==
    /\ call.op = "move_snake"
    /\ result = "ok"
    /\ left_edge # None
    /\ \E e \in edges : etype[e] = "WALL"

\* C37: in the loop of main, apples never holds more than one vertex, and
\* when generate_apple_if_missing has returned, which it does unless it
\* found no EMPTY vertex for an apple that was missing, exactly one apple is
\* on the board for the move that follows.
C37_OneApple ==
    /\ Cardinality(apples) <= 1
    /\ (call.op = "generate_apple_if_missing" /\ result = "ok")
       => Cardinality(apples) = 1
    /\ (call.op = "generate_apple_if_missing" /\ result # "ok")
       => /\ pre.apples = {}
          /\ get_empty_vertices(vertices, pre.vtype) = {}

\* The snake has eaten the apple and the loop has placed the next one.
C37_Witness ==
    /\ call.op = "generate_apple_if_missing"
    /\ result = "ok"
    /\ pre.apples = {}
    /\ Cardinality(apples) = 1
    /\ scores[1].score = 1

\* The loop found the apple in its place and generated none.
C37_WitnessKept ==
    /\ call.op = "generate_apple_if_missing"
    /\ result = "ok"
    /\ pre.apples # {}
    /\ apples = pre.apples
    /\ move_calls > 0

\* C38: while the snake follows a path that _find_shortest_path found,
\* every edge choose_next_edge() returns is an edge of the graph, not none,
\* incident with the head, whose other endpoint is neither WALL nor SNAKE;
\* the move along it does not kill the snake.
C38_PathStaysValid ==
    plan.found # <<>> =>
        /\ call.op = "choose_next_edge"
           => /\ result = "ok"
              /\ returned # None
              /\ returned \in edges
              /\ Incident(returned, head)
              /\ vtype[Opposite(returned, head)] \notin {"WALL", "SNAKE"}
              /\ Opposite(returned, head)
                 = plan.found[Len(plan.found) - Len(path)]
        /\ call.op = "move_snake"
           => /\ result = "ok"
              /\ ~dead
              /\ head = plan.found[plan.moved]

\* The second edge of a cached path of three hops was returned, after the
\* snake had moved along the first.
C38_Witness ==
    /\ call.op = "choose_next_edge"
    /\ ~plan.searched
    /\ Len(plan.found) = 3
    /\ plan.moved = 1
    /\ Len(path) = 1
    /\ returned \in edges

====
